---- MODULE Spec2Model ----
(***************************************************************************)
(* A model of tcex/tcex_request.py: the TcExRequest builder (its setters   *)
(* and send()) and the requests Session that session_retry() configures.   *)
(* The requests / urllib3 calls the source makes (Request.prepare,         *)
(* PreparedRequest.prepare_headers, prepare_auth, Session.send,            *)
(* HTTPAdapter.send, urllib3 Retry) are modelled by what they do to the    *)
(* objects the source hands them.                                          *)
(***************************************************************************)
EXTENDS Integers, Sequences, FiniteSets, TLC

(***************************************************************************)
(* Python values                                                           *)
(***************************************************************************)
\* None where the other values of the attribute are strings
None == "<None>"
\* None / Some(x) where the other values are structured (tuples, dicts)
Nothing == << >>
Some(x) == << x >>
\* an attribute that was never assigned (reading it raises AttributeError)
Unset == "<unset>"
PyTrue == "True"
PyFalse == "False"

\* a dict: a function whose DOMAIN is the set of its keys
EmptyDict == << >>
DictPut(d, k, v) == [x \in (DOMAIN d) \cup {k} |-> IF x = k THEN v ELSE d[x]]
DictUpdate(d, e) == [x \in (DOMAIN d) \cup (DOMAIN e) |-> IF x \in DOMAIN e THEN e[x] ELSE d[x]]
DictGet(d, k) == IF k \in DOMAIN d THEN d[k] ELSE None

\* str.upper() on the characters the model uses
UpperChar(c) ==
    CASE c = "a" -> "A" [] c = "c" -> "C" [] c = "d" -> "D" [] c = "e" -> "E"
      [] c = "g" -> "G" [] c = "h" -> "H" [] c = "l" -> "L" [] c = "o" -> "O"
      [] c = "p" -> "P" [] c = "s" -> "S" [] c = "t" -> "T" [] c = "u" -> "U"
      [] OTHER -> c
Upper(s) == [i \in DOMAIN s |-> UpperChar(s[i])]

GET == <<"G", "E", "T">>
POST == <<"P", "O", "S", "T">>
PUT == <<"P", "U", "T">>
DELETE == <<"D", "E", "L", "E", "T", "E">>
ValidMethods == {DELETE, GET, POST, PUT}

\* the header names of requests' CaseInsensitiveDict compare without case
LowerName(k) ==
    CASE k = "Authorization" -> "authorization"
      [] k = "Content-Type" -> "content-type"
      [] k = "Content-Length" -> "content-length"
      [] k = "User-agent" -> "user-agent"
      [] k = "User-Agent" -> "user-agent"
      [] k = "X-Trace" -> "x-trace"
      [] OTHER -> k
\* CaseInsensitiveDict built from a dict (no two keys of the model's dicts
\* differ only by case)
CaseInsensitive(d) ==
    [n \in {LowerName(k) : k \in DOMAIN d} |->
        d[CHOOSE k \in DOMAIN d : LowerName(k) = n]]

\* str(len(x))
StrOfLen(s) ==
    CASE Len(s) = 0 -> "0" [] Len(s) = 1 -> "1" [] Len(s) = 2 -> "2"
      [] Len(s) = 3 -> "3" [] OTHER -> "many"

\* requests.auth._basic_auth_str: 'Basic ' + b64encode(user:password)
BasicAuthStr(cred) ==
    CASE cred = <<"u", "p">> -> "Basic dTpw"
      [] cred = <<"a", "b">> -> "Basic YTpi"
      [] OTHER -> "Basic ?"

\* the scheme of a URL, None when it has none
Scheme(u) ==
    CASE u = "https://api/v2" -> "https"
      [] u = "http://api/v2" -> "http"
      [] u = "ftp://api/v2" -> "ftp"
      [] OTHER -> None

(***************************************************************************)
(* session_retry: the Retry policy and the Session it is mounted on        *)
(***************************************************************************)
MaxRetries == 3
StatusForcelist == {500, 502, 504}
\* urllib3 Retry.DEFAULT_METHOD_WHITELIST, restricted to the builder's methods
RetryableMethods == {DELETE, GET, PUT}
\* urllib3 Retry.RETRY_AFTER_STATUS_CODES
RetryAfterStatusCodes == {413, 429, 503}

\* a Retry counter: an integer, None (unlimited) or False (never retry)
Count(n) == [tag |-> "int", n |-> n]
CountNone == [tag |-> "None", n |-> 0]
CountFalse == [tag |-> "False", n |-> 0]

\* Retry(total=retries, read=retries, connect=retries, backoff_factor=...,
\*       status_forcelist=status_forcelist)
\* a Retry built without its status_forcelist
RetryPolicy_NoForcelist(retries, status_forcelist) ==
    [total |-> retries, connect |-> Count(retries), read |-> Count(retries),
     status_forcelist |-> {}]
RetryPolicy(retries, status_forcelist) ==
    [total |-> retries, connect |-> Count(retries), read |-> Count(retries),
     status_forcelist |-> status_forcelist]
\* requests' HTTPAdapter(): Retry(0, read=False)
DefaultRetry ==
    [total |-> 0, connect |-> CountNone, read |-> CountFalse, status_forcelist |-> {}]

\* a session whose retrying adapter is mounted for both schemes
session_retry_MountAll ==
    [headers |-> [k \in {"User-Agent"} |-> "python-requests"],
     adapters |-> [p \in {"https", "http"} |-> RetryPolicy(MaxRetries, StatusForcelist)]]
\* session = Session(); session.mount('https://', HTTPAdapter(max_retries=retries))
session_retry ==
    [headers |-> [k \in {"User-Agent"} |-> "python-requests"],
     adapters |-> [p \in {"https", "http"} |->
                     IF p = "https" THEN RetryPolicy(MaxRetries, StatusForcelist)
                     ELSE DefaultRetry]]

(***************************************************************************)
(* State                                                                   *)
(***************************************************************************)
VARIABLES
    self,            \* the TcExRequest attributes (_body, _headers, ...)
    session,         \* self.session: its headers and mounted adapters
    pc,              \* where send() is: "idle" outside send()
    request_prepped, \* the PreparedRequest send() is working on
    sent,            \* the arguments of the session.send call of this send()
    retries,         \* the Retry object of the running adapter.send
    hist,            \* what the server did on each attempt of this send()
    trace,           \* the calls send() has made so far, in order
    log,             \* the tcex.log.info lines of this send()
    pre,             \* the attributes as they were when send() was entered
    result           \* how the last operation ended

vars == <<self, session, pc, request_prepped, sent, retries, hist, trace, log, pre, result>>

NoRequest == [method |-> << >>, url |-> None, params |-> EmptyDict, body |-> Nothing,
              headers |-> EmptyDict]
NoCall == [request |-> NoRequest, proxies |-> EmptyDict, timeout |-> 0,
           verify |-> None, stream |-> FALSE, adapter |-> None]

\* how an operation ended: normally, with a response, or with an exception exc
\* (for send()'s RuntimeError, cause is the exception it wraps and reason what
\* the transport last saw)
Ok ==
    [kind |-> "ok", exc |-> None, cause |-> None, reason |-> None, status |-> 0,
     value |-> << >>]
Raised(exc, cause) ==
    [kind |-> "raise", exc |-> exc, cause |-> cause, reason |-> None, status |-> 0,
     value |-> << >>]
Returned(status) ==
    [kind |-> "response", exc |-> None, cause |-> None, reason |-> None, status |-> status,
     value |-> << >>]
\* an exception whose message carries the string value
RaisedValue(exc, value) == [Raised(exc, None) EXCEPT !.value = value]
\* send() has not ended yet
Running ==
    [kind |-> "running", exc |-> None, cause |-> None, reason |-> None, status |-> 0,
     value |-> << >>]

\* TcExRequest.__init__
Init ==
    /\ self = [authorization_method |-> None,
               basic_auth |-> Nothing,
               body |-> Nothing,
               content_type |-> None,
               headers |-> EmptyDict,
               http_method |-> GET,
               json |-> Nothing,
               payload |-> EmptyDict,
               proxies |-> EmptyDict,
               url |-> None,
               files |-> Nothing,
               timeout |-> 300,
               verify_ssl |-> PyFalse,
               verify |-> Unset]
    /\ session = [session_retry EXCEPT !.headers = DictUpdate(@, [k \in {"User-Agent"} |-> "TcEx"])]
    /\ pc = "idle"
    /\ request_prepped = NoRequest
    /\ sent = NoCall
    /\ retries = DefaultRetry
    /\ hist = << >>
    /\ trace = << >>
    /\ log = << >>
    /\ pre = self
    /\ result = Ok

(***************************************************************************)
(* The setters.  The caller runs them between sends (pc = "idle").         *)
(***************************************************************************)
\* self._headers[key] = str(val)
add_header_to(s, key, val) == [s EXCEPT !.headers = DictPut(@, key, val)]

\* send()'s locals, and what was observed of the last send(), are gone once the
\* caller goes on to its next call
ForgetSend ==
    /\ request_prepped' = NoRequest
    /\ sent' = NoCall
    /\ retries' = DefaultRetry
    /\ hist' = << >>
    /\ trace' = << >>
    /\ log' = << >>
    /\ pre' = self
    /\ UNCHANGED pc

Setter(s) ==
    /\ pc = "idle"
    /\ self' = s
    /\ result' = Ok
    /\ ForgetSend
    /\ UNCHANGED session

SetterRaises(r) ==
    /\ pc = "idle"
    /\ result' = r
    /\ ForgetSend
    /\ UNCHANGED <<self, session>>

\* a Python value with its type, for the isinstance() tests
PyInt(n) == [type |-> "int", int |-> n, str |-> "", dict |-> EmptyDict]
PyStr(s) == [type |-> "str", int |-> 0, str |-> s, dict |-> EmptyDict]
PyDict(d) == [type |-> "dict", int |-> 0, str |-> "", dict |-> d]
PyNone == [type |-> "NoneType", int |-> 0, str |-> "", dict |-> EmptyDict]

\* a body setter that tests the truth of its value, not its presence
body_setter_Truthy(data) ==
    IF data # Nothing /\ data[1] # << >>
    THEN Setter(add_header_to([self EXCEPT !.body = data], "Content-Length", StrOfLen(data[1])))
    ELSE Setter(self)
body_setter(data) ==
    IF data # Nothing
    THEN Setter(add_header_to([self EXCEPT !.body = data], "Content-Length", StrOfLen(data[1])))
    ELSE Setter(self)

\* the body getter
body_getter(s) == s.body

\* json.dumps of an int, of a str, of a dict of at most one int item
DumpsInt(n) == CASE n = 0 -> <<"0">> [] n = 1 -> <<"1">> [] OTHER -> <<"7">>
DumpsStr(k) == CASE k = "" -> <<"\"", "\"">> [] OTHER -> <<"\"", k, "\"">>
DumpsItem(d, k) == DumpsStr(k) \o <<":", " ">> \o DumpsInt(d[k])
Dumps(data) ==
    CASE data.type = "int" -> DumpsInt(data.int)
      [] data.type = "str" -> DumpsStr(data.str)
      [] data.type = "dict" ->
           IF DOMAIN data.dict = {}
           THEN <<"{", "}">>
           ELSE <<"{">> \o DumpsItem(data.dict, CHOOSE k \in DOMAIN data.dict : TRUE) \o <<"}">>
      [] OTHER -> <<"n", "u", "l", "l">>

\* the json getter returns a slot of its own
json_getter_OwnSlot(s) == s.json
\* the json getter
json_getter(s) == s.body

\* the json setter
json_setter(data) ==
    IF data.type # "NoneType"
    THEN Setter(add_header_to([self EXCEPT !.body = Some(Dumps(data))],
                              "Content-Type", "application/json"))
    ELSE Setter(self)

reset_headers == Setter([self EXCEPT !.headers = EmptyDict])

add_header(key, val) == Setter(add_header_to(self, key, val))

authorization_setter(data) == Setter(add_header_to(self, "Authorization", data))

authorization_method(method) == Setter([self EXCEPT !.authorization_method = method])

basic_auth_setter(data) == Setter([self EXCEPT !.basic_auth = data])

\* the content_type getter
content_type_getter(s) == s.content_type

content_type_setter(data) ==
    Setter(add_header_to([self EXCEPT !.content_type = data], "Content-Type", data))

set_basic_auth(username, password) ==
    authorization_setter(BasicAuthStr(<<username, password>>))

user_agent_setter(data) == Setter(add_header_to(self, "User-agent", data))

reset_payload == Setter([self EXCEPT !.payload = EmptyDict])

\* a payload value: a scalar, or a list of scalars
Scalar(v) == [list |-> FALSE, items |-> <<v>>]
ListOf(vs) == [list |-> TRUE, items |-> vs]

\* an add_payload whose append starts a new list
add_payload_Restart(key, val, append) ==
    IF append
    THEN Setter([self EXCEPT !.payload = DictPut(@, key, ListOf(<<val>>))])
    ELSE Setter([self EXCEPT !.payload = DictPut(@, key, Scalar(val))])
add_payload(key, val, append) ==
    IF append
    THEN \* self._payload.setdefault(key, []).append(val)
         LET cur == IF key \in DOMAIN self.payload THEN self.payload[key] ELSE ListOf(<< >>)
         IN  IF cur.list
             THEN Setter([self EXCEPT !.payload = DictPut(@, key, ListOf(Append(cur.items, val)))])
             ELSE \* a str has no append()
                  SetterRaises(Raised("AttributeError", "append"))
    ELSE Setter([self EXCEPT !.payload = DictPut(@, key, Scalar(val))])

\* a setter that treats an invalid method as it treats an invalid timeout
http_method_setter_Silent(data) ==
    LET up == Upper(data)
    IN  IF up \in {DELETE, GET, POST, PUT}
        THEN IF self.content_type = None /\ up \in {POST, PUT}
             THEN Setter(add_header_to([self EXCEPT !.http_method = up],
                                       "Content-Type", "application/json"))
             ELSE Setter([self EXCEPT !.http_method = up])
        ELSE Setter(self)
http_method_setter(data) ==
    LET up == Upper(data)
    IN  IF up \in {DELETE, GET, POST, PUT}
        THEN IF self.content_type = None /\ up \in {POST, PUT}
             THEN Setter(add_header_to([self EXCEPT !.http_method = up],
                                       "Content-Type", "application/json"))
             ELSE Setter([self EXCEPT !.http_method = up])
        ELSE SetterRaises(RaisedValue("AttributeError", up))

proxies_setter(data) == Setter([self EXCEPT !.proxies = data])

\* a timeout setter that stores what int() makes of any value
timeout_setter_Coerce(data) == Setter([self EXCEPT !.timeout = data.int])
timeout_setter(data) ==
    IF data.type = "int"
    THEN Setter([self EXCEPT !.timeout = data.int])
    ELSE Setter(self)

verify_ssl_setter(verify) == Setter([self EXCEPT !.verify = verify])

files_setter(data) ==
    IF data.type = "dict"
    THEN Setter([self EXCEPT !.files = Some(data.dict)])
    ELSE Setter(self)

url_setter(data) == Setter([self EXCEPT !.url = data])

(***************************************************************************)
(* send(): Request(...).prepare()                                          *)
(***************************************************************************)
Truthy(opt) == opt # Nothing /\ opt[1] # << >>

\* PreparedRequest.prepare_content_length
prepare_content_length(p) ==
    IF Truthy(p.body)
    THEN [p EXCEPT !.headers = DictPut(@, "content-length", StrOfLen(p.body[1]))]
    ELSE IF p.method # GET /\ "content-length" \notin DOMAIN p.headers
         THEN [p EXCEPT !.headers = DictPut(@, "content-length", "0")]
         ELSE p

\* the encoded multipart body of a files mapping
MultipartBody == <<"-", "-", "b", "o", "u", "n", "d", "a", "r", "y">>

\* PreparedRequest.prepare_body, for a str body or a files mapping
prepare_body(p, data, files) ==
    IF Truthy(files)
    THEN [p EXCEPT !.body = Some(MultipartBody),
                   !.headers = DictPut(DictPut(@, "content-length", StrOfLen(MultipartBody)),
                                       "content-type", "multipart/form-data")]
    ELSE prepare_content_length([p EXCEPT !.body = IF Truthy(data) THEN data ELSE Nothing])

\* what Request.prepare() raises, None when it returns
PrepareError(s) ==
    IF Scheme(s.url) = None THEN "MissingSchema"
    ELSE IF Truthy(s.files) /\ s.body # Nothing THEN "ValueError"
    ELSE None

\* Request(method, url, data, files, params).prepare()
Prepare(s) ==
    prepare_body([method |-> s.http_method, url |-> s.url, params |-> s.payload,
                  body |-> Nothing, headers |-> EmptyDict],
                 s.body, s.files)

Call(name) == [call |-> name, arg |-> NoRequest]
CallWith(name, arg) == [call |-> name, arg |-> arg]

\* leaving send() with an exception or a response
Leave(r) ==
    /\ pc' = "idle"
    /\ result' = r

send_prepare ==
    /\ pc = "idle"
    /\ pre' = self
    /\ hist' = << >>
    /\ log' = << >>
    /\ sent' = NoCall
    /\ trace' = <<Call("prepare")>>
    /\ IF PrepareError(self) # None
       THEN /\ Leave(Raised(PrepareError(self), None))
            /\ request_prepped' = NoRequest
       ELSE /\ pc' = "prepared"
            /\ request_prepped' = Prepare(self)
            /\ result' = Running
    /\ UNCHANGED <<self, session, retries>>

(***************************************************************************)
(* send(): the authorization callback, the header map, Basic auth          *)
(***************************************************************************)
\* the headers an authorization callback returns for a prepared request
CallbackHeaders(method, prepped) ==
    CASE method = "bearer" -> [k \in {"Authorization"} |-> "Bearer t"]
      [] method = "trace" -> [k \in {"X-Trace"} |-> "1"]
      [] OTHER -> EmptyDict

\* a callback that is called again with the request it has seen
authorization_call_Twice(method, prepped) ==
    <<CallWith("authorization_method", prepped), CallWith("authorization_method", prepped)>>
\* self._authorization_method(request_prepped): the call send() makes
authorization_call(method, prepped) ==
    <<CallWith("authorization_method", prepped)>>

\* the callback's headers assigned to the header map instead of merged into it
merge_authorization_Assign(s, prepped) ==
    [s EXCEPT !.headers = CallbackHeaders(s.authorization_method, prepped)]
\* self._headers.update(self._authorization_method(request_prepped))
merge_authorization(s, prepped) ==
    [s EXCEPT !.headers = DictUpdate(@, CallbackHeaders(s.authorization_method, prepped))]

send_authorization ==
    /\ pc = "prepared"
    /\ pc' = "authorized"
    /\ IF self.authorization_method # None
       THEN /\ self' = merge_authorization(self, request_prepped)
            /\ trace' = trace \o authorization_call(self.authorization_method, request_prepped)
       ELSE UNCHANGED <<self, trace>>
    /\ UNCHANGED <<session, request_prepped, sent, retries, hist, log, pre, result>>

\* PreparedRequest.prepare_headers: a new CaseInsensitiveDict of the given headers
prepare_headers(p, headers) == [p EXCEPT !.headers = CaseInsensitive(headers)]

send_prepare_headers ==
    /\ pc = "authorized"
    /\ pc' = "headers"
    /\ request_prepped' = prepare_headers(request_prepped, self.headers)
    /\ trace' = Append(trace, Call("prepare_headers"))
    /\ UNCHANGED <<self, session, sent, retries, hist, log, pre, result>>

\* a prepare_auth that leaves an Authorization header that is already there
prepare_auth_KeepExisting(p, auth) ==
    prepare_content_length(
        [p EXCEPT !.headers = IF "authorization" \in DOMAIN @ THEN @
                              ELSE DictPut(@, "authorization", BasicAuthStr(auth))])
\* PreparedRequest.prepare_auth with a (username, password) pair
prepare_auth(p, auth) ==
    prepare_content_length(
        [p EXCEPT !.headers = DictPut(@, "authorization", BasicAuthStr(auth))])

send_prepare_auth ==
    /\ pc = "headers"
    /\ pc' = "ready"
    /\ IF self.basic_auth # Nothing
       THEN /\ request_prepped' = prepare_auth(request_prepped, self.basic_auth[1])
            /\ trace' = Append(trace, Call("prepare_auth"))
       ELSE UNCHANGED <<request_prepped, trace>>
    /\ UNCHANGED <<self, session, sent, retries, hist, log, pre, result>>

(***************************************************************************)
(* send(): self.session.send(request_prepped, ...) and the retries of the  *)
(* adapter mounted for the URL                                             *)
(***************************************************************************)
\* what the server does on one attempt
ConnectError == [kind |-> "ConnectError", status |-> 0, retry_after |-> FALSE]
ReadError == [kind |-> "ReadError", status |-> 0, retry_after |-> FALSE]
Response(status, retry_after) ==
    [kind |-> "Response", status |-> status, retry_after |-> retry_after]

\* an except clause that lets the client's exception through
Wrapped_Raw(cause, reason, status) ==
    [kind |-> "raise", exc |-> cause, cause |-> None, reason |-> reason,
     status |-> status, value |-> << >>]
\* send()'s except clause: RuntimeError('Failed making HTTP request (e)')
Wrapped(cause, reason, status) ==
    [kind |-> "raise", exc |-> "RuntimeError", cause |-> cause, reason |-> reason,
     status |-> status, value |-> << >>]

\* Session.get_adapter: the adapter mounted for the URL's prefix
HasAdapter(sess, url) == Scheme(url) \in DOMAIN sess.adapters
get_adapter(sess, url) == sess.adapters[Scheme(url)]

send_session(stream) ==
    /\ pc = "ready"
    /\ sent' = [request |-> request_prepped, proxies |-> self.proxies,
                timeout |-> self.timeout, verify |-> self.verify_ssl,
                stream |-> stream,
                adapter |-> IF HasAdapter(session, request_prepped.url)
                            THEN Scheme(request_prepped.url) ELSE None]
    /\ trace' = Append(trace, Call("session.send"))
    /\ IF HasAdapter(session, request_prepped.url)
       THEN /\ pc' = "sending"
            /\ retries' = get_adapter(session, request_prepped.url)
            /\ UNCHANGED result
       ELSE /\ Leave(Wrapped("InvalidSchema", None, 0))
            /\ UNCHANGED retries
    /\ UNCHANGED <<self, session, request_prepped, hist, log, pre>>

\* Retry._is_method_retryable
is_method_retryable(method) == method \in RetryableMethods

\* is_retry answering for every status of an error class
is_retry_AnyServerError(r, method, status_code, has_retry_after) ==
    /\ is_method_retryable(method)
    /\ \/ status_code >= 500
       \/ r.total # 0 /\ has_retry_after /\ status_code \in RetryAfterStatusCodes
\* Retry.is_retry(method, status_code, has_retry_after)
is_retry(r, method, status_code, has_retry_after) ==
    /\ is_method_retryable(method)
    /\ \/ status_code \in r.status_forcelist
       \/ r.total # 0 /\ has_retry_after /\ status_code \in RetryAfterStatusCodes

Decrement(c) == IF c.tag = "int" THEN Count(c.n - 1) ELSE c

\* an increment that charges a failed connection to connect only, not to total
increment_PerCategory(r, o) ==
    CASE o.kind = "ConnectError" ->
            [r EXCEPT !.connect = Decrement(@)]
      [] o.kind = "ReadError" ->
            [r EXCEPT !.total = @ - 1, !.read = Decrement(@)]
      [] OTHER ->
            [r EXCEPT !.total = @ - 1]
\* Retry.increment: the next Retry object
increment(r, o) ==
    CASE o.kind = "ConnectError" ->
            [r EXCEPT !.total = @ - 1, !.connect = Decrement(@)]
      [] o.kind = "ReadError" ->
            [r EXCEPT !.total = @ - 1, !.read = Decrement(@)]
      [] OTHER ->
            [r EXCEPT !.total = @ - 1]

\* Retry.increment re-raises the error instead of counting it
Reraises(r, method, o) ==
    \/ o.kind = "ConnectError" /\ r.connect.tag = "False"
    \/ o.kind = "ReadError" /\ (r.read.tag = "False" \/ ~is_method_retryable(method))

\* Retry.is_exhausted
is_exhausted(r) ==
    \/ r.total < 0
    \/ r.connect.tag = "int" /\ r.connect.n < 0
    \/ r.read.tag = "int" /\ r.read.n < 0

\* the requests exception HTTPAdapter.send raises for a failed attempt
RequestsError(o, exhausted) ==
    CASE o.kind = "Response" -> "RetryError"
      [] o.kind = "ReadError" /\ ~exhausted -> "ReadTimeout"
      [] OTHER -> "ConnectionError"

\* one attempt of HTTPConnectionPool.urlopen, with the server's answer o
adapter_send(o) ==
    /\ pc = "sending"
    /\ hist' = Append(hist, o)
    /\ trace' = Append(trace, Call("urlopen"))
    /\ LET method == sent.request.method
           failed == o.kind # "Response"
           again == IF failed THEN ~Reraises(retries, method, o)
                    ELSE is_retry(retries, method, o.status, o.retry_after)
           next == increment(retries, o)
       IN  IF ~again
           THEN IF failed
                THEN \* the error is re-raised, and wrapped by send()
                     /\ Leave(Wrapped(RequestsError(o, FALSE), o.kind, 0))
                     /\ UNCHANGED <<retries, log>>
                ELSE \* the response is returned: its status is logged
                     /\ Leave(Returned(o.status))
                     /\ log' = Append(log, o.status)
                     /\ UNCHANGED retries
           ELSE IF is_exhausted(next)
                THEN \* MaxRetryError, wrapped by send()
                     /\ Leave(Wrapped(RequestsError(o, TRUE), o.kind, o.status))
                     /\ UNCHANGED <<retries, log>>
                ELSE /\ retries' = next
                     /\ UNCHANGED <<pc, result, log>>
    /\ UNCHANGED <<self, session, request_prepped, sent, pre>>

(***************************************************************************)
(* Specifications                                                          *)
(***************************************************************************)
\* what callers assign and what servers answer, in the model
MethodInputs ==
    {<<"g", "e", "t">>, <<"P", "o", "s", "t">>, <<"p", "u", "t">>, DELETE,
     <<"p", "a", "t", "c", "h">>, <<"H", "E", "A", "D">>, << >>}
UrlInputs == {"https://api/v2", "http://api/v2", "ftp://api/v2", "api/v2"}
Statuses == {200, 304, 404, 500, 502, 503}
Outcomes ==
    {ConnectError, ReadError} \cup {Response(st, ra) : st \in Statuses, ra \in BOOLEAN}

\* the steps of a running send()
SendStep(outcomes, streams) ==
    \/ send_authorization
    \/ send_prepare_headers
    \/ send_prepare_auth
    \/ \E stream \in streams : send_session(stream)
    \/ \E o \in outcomes : adapter_send(o)

\* the transport: method, URL, and every answer of the server
NextRetry ==
    \/ \E data \in MethodInputs : http_method_setter(data)
    \/ \E data \in UrlInputs : url_setter(data)
    \/ send_prepare
    \/ SendStep(Outcomes, {FALSE})

SpecRetry == Init /\ [][NextRetry]_vars

\* send() is synchronous: the calling thread runs it to its end, and every
\* attempt ends with a response or, after the timeout at the latest, an error
SpecRetryFair == SpecRetry /\ WF_vars(SendStep(Outcomes, {FALSE}))

\* the builder and send(): every attribute send() reads, and a server that
\* refuses the connection or answers 200
SendMethodInputs == {<<"g", "e", "t">>, <<"P", "o", "s", "t">>}
SendOutcomes == {ConnectError, Response(200, FALSE)}

TimeoutInputs == {PyInt(30), PyStr("abc"), PyNone}
FilesInputs == {PyDict([upload |-> "bytes"]), PyStr("path"), PyNone}

NextSend ==
    \/ \E data \in SendMethodInputs : http_method_setter(data)
    \/ url_setter("https://api/v2")
    \/ \E method \in {None, "bearer"} : authorization_method(method)
    \/ \E data \in {Nothing, Some(<<"u", "p">>)} : basic_auth_setter(data)
    \/ authorization_setter("token")
    \/ user_agent_setter("custom")
    \/ reset_headers
    \/ \E verify \in {PyTrue, "ca.pem"} : verify_ssl_setter(verify)
    \/ \E data \in {EmptyDict, [https |-> "http://proxy:3128"]} : proxies_setter(data)
    \/ \E data \in TimeoutInputs : timeout_setter(data)
    \/ \E data \in {Nothing, Some(<<"a", "b">>)} : body_setter(data)
    \/ \E data \in FilesInputs : files_setter(data)
    \/ add_payload("tag", "x", FALSE)
    \/ reset_payload
    \/ send_prepare
    \/ SendStep(SendOutcomes, BOOLEAN)

SpecSend == Init /\ [][NextSend]_vars

\* the caller only builds the request: every setter of the body, the headers,
\* the method and the payload, in any order
MaxItems == 2
BodyInputs == {Nothing, Some(<< >>), Some(<<"a", "b">>)}
JsonInputs == {PyNone, PyStr(""), PyDict(EmptyDict), PyDict([k \in {"a"} |-> 1])}
HeaderInputs == {<<"Content-Type", "text/xml">>, <<"Content-Length", "9">>}
ContentTypeInputs == {"text/plain"}
PayloadValues == {"x", "y"}
\* the list under key has room for one more value
PayloadRoom(key) ==
    IF key \in DOMAIN self.payload
    THEN Len(self.payload[key].items) < MaxItems
    ELSE TRUE

NextBuilder ==
    \/ \E data \in BodyInputs : body_setter(data)
    \/ \E data \in JsonInputs : json_setter(data)
    \/ \E h \in HeaderInputs : add_header(h[1], h[2])
    \/ \E data \in ContentTypeInputs : content_type_setter(data)
    \/ \E data \in MethodInputs : http_method_setter(data)
    \/ reset_headers
    \/ \E val \in PayloadValues, append \in BOOLEAN :
          PayloadRoom("tag") /\ add_payload("tag", val, append)
    \/ add_payload("other", "z", FALSE)
    \/ reset_payload

SpecBuilder == Init /\ [][NextBuilder]_vars

(***************************************************************************)
(* The transport's retries (session_retry)                                 *)
(***************************************************************************)
Last(h) == h[Len(h)]
IsPrefix(h, g) == Len(h) <= Len(g) /\ \A i \in 1..Len(h) : h[i] = g[i]
\* send() is over: it has returned or raised
Ended == pc = "idle" /\ trace # << >>

\* a server that answers 500 three times, then 200
Script500x3 ==
    <<Response(500, FALSE), Response(500, FALSE), Response(500, FALSE), Response(200, FALSE)>>

\* what C1 says of one send() over https against that server: it is still
\* retrying while the 500s come, and it returns the 200 of the fourth attempt
RetriesScript ==
    /\ (hist # << >> /\ IsPrefix(hist, Script500x3) /\ hist # Script500x3) => pc = "sending"
    /\ hist = Script500x3 =>
          /\ Ended
          /\ result = Returned(200)
          /\ Len(SelectSeq(trace, LAMBDA e : e.call = "urlopen")) = MaxRetries + 1

\* C1 as stated: any send() through the default transport to an https URL whose
\* server answers 500, 500, 500, 200 makes 4 attempts and returns the 200.
C1_AnyMethodRetries500 ==
    sent.adapter = "https" => RetriesScript

\* C1, amended: with method GET, PUT or DELETE a send() to an https URL whose
\* server answers 500, 500, 500, 200 makes exactly 4 attempts (3 retries) and
\* returns the 200; with method POST the first 500 is returned, without a retry.
C1_IdempotentRetries500 ==
    sent.adapter = "https" =>
        /\ sent.request.method \in {GET, PUT, DELETE} => RetriesScript
        /\ (sent.request.method = POST /\ hist # << >> /\ IsPrefix(hist, Script500x3)) =>
              /\ hist = <<Response(500, FALSE)>>
              /\ Ended
              /\ result = Returned(500)

C1_Witness ==
    /\ sent.adapter = "https"
    /\ sent.request.method = GET
    /\ hist = Script500x3
    /\ result = Returned(200)

\* a response that urllib3 retries because of its Retry-After header
AsksRetryAfter(o) == o.retry_after /\ o.status \in RetryAfterStatusCodes

\* C2 as stated: a response whose status is not in the retryable set never
\* triggers a retry: send() returns it at once.
C2_OnlyForcelistRetried ==
    (hist # << >> /\ Last(hist).kind = "Response" /\ Last(hist).status \notin StatusForcelist) =>
        /\ Ended
        /\ result = Returned(Last(hist).status)

\* C2, amended: a response whose status is not in the retryable set, and that is
\* not a 413, 429 or 503 carrying a Retry-After header, never triggers a retry:
\* send() returns it at once (after one attempt when it is the first answer),
\* and logs its status.
C2_NotRetryableReturned ==
    (/\ hist # << >>
     /\ Last(hist).kind = "Response"
     /\ Last(hist).status \notin StatusForcelist
     /\ ~AsksRetryAfter(Last(hist))) =>
        /\ Ended
        /\ result = Returned(Last(hist).status)
        /\ log = <<Last(hist).status>>

C2_Witness ==
    /\ sent.adapter = "https"
    /\ sent.request.method = GET
    /\ hist = <<Response(503, FALSE)>>
    /\ result = Returned(503)

\* a send() makes at most 1 + maxRetries attempts whatever the mix of
\* connection failures, read timeouts and retryable responses; after the
\* last attempt it has ended; and when it ends the last thing the transport saw
\* reaches the caller: the response, or an error naming the failure
BudgetShared ==
    /\ Len(hist) <= MaxRetries + 1
    /\ Len(hist) = MaxRetries + 1 => Ended
    /\ (Ended /\ hist # << >>) =>
          \/ /\ result.kind = "response"
             /\ Last(hist).kind = "Response"
             /\ result.status = Last(hist).status
          \/ /\ result.kind = "raise"
             /\ result.reason = Last(hist).kind
             /\ result.status = Last(hist).status

\* C3: every send() terminates; it makes at most 1 + maxRetries attempts in
\* total, whatever the mix of connection failures, read timeouts and retryable
\* responses; and once the budget is used up the last failure reaches the
\* caller.
C3_Terminates ==
    /\ []BudgetShared
    /\ (pc # "idle") ~> (pc = "idle")

\* the budget is used up by a mix of the three kinds of failure
C3_Witness ==
    /\ Ended
    /\ Len(hist) = MaxRetries + 1
    /\ result.kind = "raise"
    /\ \E i, j, k \in 1..Len(hist) :
          /\ hist[i].kind = "ConnectError"
          /\ hist[j].kind = "ReadError"
          /\ hist[k].kind = "Response"

\* C4 as stated: every failure of send() reaches the caller as the wrapped
\* RuntimeError.
C4_EveryFailureWrapped ==
    (Ended /\ result.kind = "raise") => result.exc = "RuntimeError"

\* C4, amended: every failure of the transport call (session.send) reaches the
\* caller as the RuntimeError that names the client's exception; a failure of
\* Request.prepare(), before the transport is called, reaches the caller as
\* raised.  The status code is logged once when send() returns a response, and
\* not at all otherwise.
C4_TransportFailureWrapped ==
    Ended =>
        /\ result.kind \in {"raise", "response"}
        /\ (result.kind = "raise" /\ sent # NoCall) =>
              /\ result.exc = "RuntimeError"
              /\ result.cause \in {"ConnectionError", "ReadTimeout", "RetryError", "InvalidSchema"}
        /\ (result.kind = "raise" /\ sent = NoCall) =>
              /\ result.exc = PrepareError(pre)
              /\ result.exc # None
        /\ result.kind = "response" => log = <<result.status>>
        /\ result.kind = "raise" => log = << >>

C4_Witness ==
    /\ Ended
    /\ result.kind = "raise"
    /\ result.exc = "RuntimeError"
    /\ result.cause = "RetryError"
    /\ log = << >>

(***************************************************************************)
(* send(): the authorization callback, the header map and Basic auth       *)
(***************************************************************************)
\* the positions in the trace of the calls named name
Positions(name) == {i \in 1..Len(trace) : trace[i].call = name}
\* the descriptor of this send() was prepared (Request.prepare() returned)
Prepared == trace # << >> /\ PrepareError(pre) = None
\* send() is past the place where it calls the callback
PastAuthorization == Prepared /\ pc # "prepared"
\* the headers the registered callback returns in this send()
Granted == CallbackHeaders(pre.authorization_method, Prepare(pre))

\* C5: with a callback registered, a send() whose descriptor was prepared calls
\* it exactly once, with the prepared descriptor, right after the preparation:
\* before the header map is applied and before the first attempt of the
\* transport; no send() calls it twice, whatever the number of attempts.
C5_CallbackOncePerSend ==
    /\ Cardinality(Positions("authorization_method")) <= 1
    /\ pre.authorization_method = None => Positions("authorization_method") = {}
    /\ (pre.authorization_method # None /\ PastAuthorization) =>
          /\ trace[1] = Call("prepare")
          /\ trace[2] = CallWith("authorization_method", Prepare(pre))
          /\ Positions("authorization_method") = {2}
          /\ \A i \in Positions("prepare_headers") \cup Positions("session.send")
                        \cup Positions("urlopen") : i > 2

\* a send() with a callback that went through three retries
C5_Witness ==
    /\ Ended
    /\ pre.authorization_method = "bearer"
    /\ Cardinality(Positions("urlopen")) = MaxRetries + 1
    /\ Cardinality(Positions("authorization_method")) = 1

\* C6: the callback's headers are merged into the header map before the header
\* map is applied, and Basic credentials are applied last: the request handed
\* to the transport carries the Basic value when credentials are set, and
\* otherwise the callback's Authorization value when the callback supplies one
\* (also over an Authorization value the header map already held).
C6_AuthorizationPrecedence ==
    sent # NoCall =>
        /\ pre.basic_auth # Nothing =>
              /\ "authorization" \in DOMAIN sent.request.headers
              /\ sent.request.headers["authorization"] = BasicAuthStr(pre.basic_auth[1])
        /\ (pre.basic_auth = Nothing /\ "Authorization" \in DOMAIN Granted) =>
              /\ "authorization" \in DOMAIN sent.request.headers
              /\ sent.request.headers["authorization"] = Granted["Authorization"]
        /\ \A i \in Positions("authorization_method"), j \in Positions("prepare_headers") : i < j
        /\ \A j \in Positions("prepare_headers"), k \in Positions("prepare_auth") : j < k

\* both orderings: the callback alone, and the callback with Basic credentials
C6_Witness ==
    /\ sent # NoCall
    /\ pre.authorization_method = "bearer"
    /\ pre.basic_auth # Nothing
    /\ DictGet(pre.headers, "Authorization") = "token"
    /\ sent.request.headers["authorization"] = "Basic dTpw"

\* C7 as stated: send() only reads the builder's attributes, with or without
\* an authorization callback.
C7_SendReadsOnly ==
    Ended => self = pre

\* C7, amended: send() leaves method, url, body, payload, files, proxies,
\* timeout, TLS setting, credentials and callback as they were; it leaves the
\* header map as it was when no callback is registered; with a callback
\* registered (and the descriptor prepared) the header map after send() is the
\* one before the call with the callback's headers merged into it.
C7_SendMergesCallbackHeaders ==
    /\ pc # "idle" =>
          \A f \in (DOMAIN self) \ {"headers"} : self[f] = pre[f]
    /\ Ended =>
          IF pre.authorization_method # None /\ Prepared
          THEN self = [pre EXCEPT !.headers =
                         [k \in (DOMAIN pre.headers) \cup (DOMAIN Granted) |->
                            IF k \in DOMAIN Granted THEN Granted[k] ELSE pre.headers[k]]]
          ELSE self = pre

\* a send() with a callback that changed the header map, every other attribute
\* being set to something else than its default
C7_Witness ==
    /\ Ended
    /\ result.kind = "response"
    /\ pre.authorization_method = "bearer"
    /\ self.headers # pre.headers
    /\ self.body # Nothing /\ self.payload # EmptyDict /\ self.proxies # EmptyDict
    /\ self.timeout = 30 /\ self.verify = PyTrue /\ self.basic_auth # Nothing

\* C8: the verify value send() gives the transport is the one last assigned
\* through the verify_ssl setter (False when it was never assigned), and the
\* proxies and timeout are the ones last assigned.
C8_VerifyLastAssigned ==
    sent # NoCall =>
        /\ sent.verify = IF pre.verify = Unset THEN PyFalse ELSE pre.verify
        /\ sent.proxies = pre.proxies
        /\ sent.timeout = pre.timeout

\* C9: every request send() hands to the transport carries the User-Agent set
\* on the session at construction ('TcEx'), unless the header map holds one.
C9_UserAgentSent ==
    (sent # NoCall /\ "User-agent" \notin DOMAIN pre.headers) =>
        /\ "user-agent" \in DOMAIN sent.request.headers
        /\ sent.request.headers["user-agent"] = session.headers["User-Agent"]

(***************************************************************************)
(* The http_method setter                                                  *)
(***************************************************************************)
\* what an assignment of data to http_method does, carried being the value the
\* error names
MethodAssignment(data, carried) ==
    IF Upper(data) \in {GET, POST, PUT, DELETE}
    THEN /\ self'.http_method = Upper(data)
         /\ result' = Ok
    ELSE /\ result' = RaisedValue("AttributeError", carried)
         /\ self'.http_method = self.http_method
         /\ self'.headers = self.headers
         /\ pc' = "idle" /\ sent' = NoCall /\ hist' = << >>

\* C10 as stated: the setter stores the upper-cased form of a string that
\* upper-cases to GET, POST, PUT or DELETE; any other string fails with an error
\* carrying the offending value and changes neither the method nor the header
\* map, with no network activity; the stored method is always one of the four.
C10_ErrorCarriesValue ==
    [][/\ \A data \in MethodInputs : http_method_setter(data) => MethodAssignment(data, data)
       /\ self'.http_method \in ValidMethods]_vars

\* C10, amended: as stated, except that the error carries the upper-cased form
\* of the offending value.
C10_ErrorCarriesUpperCased ==
    [][/\ \A data \in MethodInputs : http_method_setter(data) => MethodAssignment(data, Upper(data))
       /\ self'.http_method \in ValidMethods]_vars

\* "patch" was refused after "Post" had been stored
C10_Witness ==
    /\ result = RaisedValue("AttributeError", <<"P", "A", "T", "C", "H">>)
    /\ self.http_method = POST
    /\ DictGet(self.headers, "Content-Type") = "application/json"

(***************************************************************************)
(* The builder: body, headers, method and payload setters                  *)
(***************************************************************************)
HasHeader(s, name) == name \in DOMAIN s.headers

\* C11: assigning POST or PUT to http_method leaves a Content-Type that the
\* header map already holds unchanged (whether it came from the content_type
\* setter, the json setter or add_header) and sets application/json when the
\* map holds none; assigning GET or DELETE never changes the header map.
C11_MethodKeepsContentType ==
    [][\A data \in MethodInputs :
          http_method_setter(data) =>
              IF Upper(data) \in {POST, PUT} /\ ~HasHeader(self, "Content-Type")
              THEN self'.headers = DictPut(self.headers, "Content-Type", "application/json")
              ELSE self'.headers = self.headers]_vars

\* C12: whenever the body is set, the header map holds a Content-Length that
\* is the length of the current body.
C12_ContentLengthOfBody ==
    self.body # Nothing =>
        /\ HasHeader(self, "Content-Length")
        /\ self.headers["Content-Length"] = StrOfLen(self.body[1])

\* the values the claim calls absent or empty
EmptyBodyInputs == {data \in BodyInputs : data = Nothing \/ data[1] = << >>}
EmptyJsonInputs == {PyNone, PyStr(""), PyDict(EmptyDict)}

\* C13 as stated: assigning an absent or an empty value to the body setter or
\* to the json setter changes neither the stored body nor the header map.
C13_EmptyIsNoOp ==
    [][/\ \A data \in EmptyBodyInputs : body_setter(data) => self' = self
       /\ \A data \in EmptyJsonInputs : json_setter(data) => self' = self]_vars

\* C13, amended: assigning None to either setter changes nothing; an empty
\* value is stored as any other value is: the empty string becomes the body
\* with Content-Length 0, an empty json value becomes its serialization with
\* Content-Type application/json.
C13_NoneIsNoOp ==
    [][/\ body_setter(Nothing) => self' = self
       /\ json_setter(PyNone) => self' = self
       /\ body_setter(Some(<< >>)) =>
              self' = [self EXCEPT !.body = Some(<< >>),
                                   !.headers = DictPut(@, "Content-Length", "0")]
       /\ json_setter(PyDict(EmptyDict)) =>
              self' = [self EXCEPT !.body = Some(<<"{", "}">>),
                                   !.headers = DictPut(@, "Content-Type", "application/json")]
       /\ json_setter(PyStr("")) =>
              self' = [self EXCEPT !.body = Some(<<"\"", "\"">>),
                                   !.headers = DictPut(@, "Content-Type", "application/json")]]_vars

\* the empty string was assigned over the body "ab"
C13_Witness ==
    /\ pre.body = Some(<<"a", "b">>)
    /\ self.body = Some(<< >>)
    /\ DictGet(self.headers, "Content-Length") = "0"
    /\ result = Ok

\* an assignment that stores something
Effective(data) == data # Nothing /\ data # PyNone

\* C14: body and json are one slot: after an effective assignment both getters
\* return what it stored (the serialization, when made through json), and no
\* other call changes what they return; assigning json sets Content-Type
\* application/json, assigning body leaves the Content-Type header as it was.
C14_OneSlot ==
    [][/\ \A data \in BodyInputs :
             body_setter(data) /\ Effective(data) =>
                 /\ body_getter(self') = data /\ json_getter(self') = data
                 /\ DictGet(self'.headers, "Content-Type") = DictGet(self.headers, "Content-Type")
       /\ \A data \in JsonInputs :
             json_setter(data) /\ Effective(data) =>
                 /\ body_getter(self') = Some(Dumps(data))
                 /\ json_getter(self') = Some(Dumps(data))
                 /\ DictGet(self'.headers, "Content-Type") = "application/json"
       /\ (body_getter(self') # body_getter(self) \/ json_getter(self') # json_getter(self)) =>
             \/ \E data \in BodyInputs : body_setter(data) /\ Effective(data)
             \/ \E data \in JsonInputs : json_setter(data) /\ Effective(data)]_vars

\* the body "ab" was assigned over the serialization of {"a": 1}, whose
\* Content-Type stays
C14_Witness ==
    /\ json_getter(pre) = Some(<<"{", "\"", "a", "\"", ":", " ", "1", "}">>)
    /\ json_getter(self) = Some(<<"a", "b">>)
    /\ body_getter(self) = Some(<<"a", "b">>)
    /\ DictGet(self.headers, "Content-Type") = "application/json"
    /\ DictGet(self.headers, "Content-Length") = "2"

\* the payload p is the payload q with key mapped to value, every other key as
\* it was
PayloadWith(p, q, key, value) ==
    /\ DOMAIN p = (DOMAIN q) \cup {key}
    /\ p[key] = value
    /\ \A k \in (DOMAIN q) \ {key} : p[k] = q[k]

\* the values appended under key so far, none when the key is absent
Appended(key) == IF key \in DOMAIN self.payload THEN self.payload[key].items ELSE << >>
OnlyAppended(key) == key \in DOMAIN self.payload => self.payload[key].list

\* C15: add_payload with append=False maps the key to the value of this call;
\* with append=True on a key that only append=True calls have written, it maps
\* the key to the list of the values so far followed by the value of this call;
\* the other keys are as they were.
C15_AddPayload ==
    [][\A val \in PayloadValues :
          /\ add_payload("tag", val, FALSE) =>
                 PayloadWith(self'.payload, self.payload, "tag", Scalar(val))
          /\ (add_payload("tag", val, TRUE) /\ OnlyAppended("tag")) =>
                 PayloadWith(self'.payload, self.payload, "tag",
                             ListOf(Appended("tag") \o <<val>>))]_vars

\* "x" then "y" were appended under "tag", next to another key
C15_Witness ==
    /\ "tag" \in DOMAIN self.payload /\ "other" \in DOMAIN self.payload
    /\ self.payload["tag"] = ListOf(<<"x", "y">>)
    /\ self.payload["other"] = Scalar("z")
    /\ pre.payload["tag"] = ListOf(<<"x">>)

\* C19: the content_type getter returns a value exactly when the header map
\* holds a Content-Type, and then it returns that value.
C19_ContentTypeAgrees ==
    content_type_getter(self) = DictGet(self.headers, "Content-Type")

\* C20: add_payload never fails, whatever the mix of append=True and
\* append=False on a key; after a call with append=True the key maps to a list
\* whose last element is the value just added.
C20_AddPayloadNeverFails ==
    [][\A val \in PayloadValues, append \in BOOLEAN :
          add_payload("tag", val, append) =>
              /\ result' = Ok
              /\ append => /\ self'.payload["tag"].list
                           /\ Last(self'.payload["tag"].items) = val]_vars

(***************************************************************************)
(* The silent setters, and the headers of the dispatched request           *)
(***************************************************************************)
\* C16: assigning a value that is not an int to timeout, or one that is not a
\* dict to files, raises nothing and changes nothing of the builder; the
\* timeout given to the transport is the default or an int that was assigned.
C16_SilentNoOps ==
    [][/\ \A data \in TimeoutInputs :
             (timeout_setter(data) /\ data.type # "int") => (self' = self /\ result' = Ok)
       /\ \A data \in FilesInputs :
             (files_setter(data) /\ data.type # "dict") => (self' = self /\ result' = Ok)
       /\ sent' # NoCall =>
             sent'.timeout \in {300} \cup {data.int : data \in {t \in TimeoutInputs : t.type = "int"}}]_vars

\* a call that changed nothing, after the timeout 30 and a files mapping had
\* been assigned
C16_Witness ==
    /\ pc = "idle" /\ trace = << >> /\ result = Ok
    /\ pre = self
    /\ self.timeout = 30
    /\ self.files = Some([upload |-> "bytes"])

\* C17: a header that Request.prepare() derived, and whose name the header map
\* does not hold, is on the request given to the transport.
C17_DerivedHeadersKept ==
    sent # NoCall =>
        \A name \in DOMAIN Prepare(pre).headers :
            name \notin DOMAIN CaseInsensitive(self.headers) =>
                /\ name \in DOMAIN sent.request.headers
                /\ sent.request.headers[name] = Prepare(pre).headers[name]

(***************************************************************************)
(* The URL scheme and the retries                                          *)
(***************************************************************************)
\* a first outcome that the retry policy of session_retry answers with a
\* second attempt
Retryable(method, o) ==
    \/ o.kind = "ConnectError"
    \/ /\ method \in RetryableMethods
       /\ \/ o.kind = "ReadError"
          \/ o.kind = "Response" /\ o.status \in StatusForcelist

\* the first attempt of a send() over scheme has failed in a way the policy
\* retries
FirstFailed(scheme) ==
    /\ sent.adapter = scheme
    /\ Len(hist) = 1
    /\ Retryable(sent.request.method, hist[1])

\* C18 as stated: a connection failure, read timeout or retryable status is
\* retried on an http URL as it is on an https URL.
C18_AnySchemeRetries ==
    /\ FirstFailed("https") => pc = "sending"
    /\ FirstFailed("http") => pc = "sending"

\* C18, amended: the retry policy is mounted for https only. On an https URL
\* the failure is retried; on an http URL a send() makes one attempt, whose
\* response is returned and whose failure is raised, wrapped, at once.
C18_OnlyHttpsRetries ==
    /\ FirstFailed("https") => pc = "sending"
    /\ sent.adapter = "http" =>
          /\ Len(hist) <= 1
          /\ hist # << >> =>
                /\ Ended
                /\ IF hist[1].kind = "Response"
                   THEN result = Returned(hist[1].status)
                   ELSE result.kind = "raise" /\ result.exc = "RuntimeError"

\* the connection to an http URL failed once and send() has raised
C18_Witness ==
    /\ FirstFailed("http")
    /\ hist[1].kind = "ConnectError"
    /\ Ended
    /\ result.kind = "raise"

====
